---- MODULE Spec2Model ----
(***************************************************************************)
(* Model of ftag.transform.Transform (src/ftag/transform.py).              *)
(*                                                                         *)
(* A Python dict is a sequence of <<key, value>> pairs with distinct keys, *)
(* in insertion order (the order .items() iterates in).  A batch is a      *)
(* function from the group names it holds to structured arrays; a          *)
(* structured array is [shape, fields], fields being the sequence of       *)
(* [name, dtype, data] columns in dtype order.  Numbers are integers; a    *)
(* b1 column holds 0/1.  A Python scalar is [type, val].                   *)
(***************************************************************************)
EXTENDS Integers, Sequences, FiniteSets, TLC

VARIABLES
    variable_map,      \* self.variable_map      group -> {old -> new}
    variable_map_inv,  \* self.variable_map_inv  group -> {new -> old}
    ints_map,          \* self.ints_map          group -> field -> {old -> new}
    floats_map,        \* self.floats_map        group -> field -> function
    insert_vars,       \* self.insert_vars       group -> field -> default
    batch,             \* the batch the caller holds (mutated in place)
    err,               \* what the last method call raised (NoErr: it returned)
    hist,              \* the method calls made on the batch so far: [op, err]
    pre,               \* the batch as it was before the last method call
    tr                 \* a name translation in progress: [name, orig, cur, dirs]

vars == <<variable_map, variable_map_inv, ints_map, floats_map, insert_vars,
          batch, err, hist, pre, tr>>

(***************************************************************************)
(* Bounds of the model.                                                    *)
(***************************************************************************)
MaxOps == 2            \* method calls made on one batch
MaxVal == 2            \* field values and integer-map entries are 0..MaxVal
NumRecords == 3        \* records per group
MaxTranslations == 2   \* map_variable_names calls chained on one list
MaxListLen == 2        \* length of a list of field names handed to map_variable_names
MaxTables == 2         \* tables of the configuration that are not empty
MaxMapLen == 2         \* entries of a generated rename table
MaxInsert == 2         \* entries of a generated table of defaults

(***************************************************************************)
(* Python dicts.                                                           *)
(***************************************************************************)
Keys(d) == {d[i][1] : i \in DOMAIN d}

Has(d, k) == \E i \in DOMAIN d : d[i][1] = k

Get(d, k) == d[CHOOSE i \in DOMAIN d : d[i][1] = k][2]

\* d.get(k, dflt)
GetOr(d, k, dflt) == IF Has(d, k) THEN Get(d, k) ELSE dflt

\* d[k] = v: an existing key keeps its place, a new key goes last
Put(d, k, v) ==
    IF Has(d, k)
    THEN [i \in DOMAIN d |-> IF d[i][1] = k THEN <<k, v>> ELSE d[i]]
    ELSE Append(d, <<k, v>>)

SeqsUpTo(S, n) == UNION {[1..k -> S] : k \in 0..n}

\* the dicts with keys in K, values in V and at most n entries
Dicts(K, V, n) ==
    {d \in SeqsUpTo(K \X V, n) :
        \A i, j \in DOMAIN d : i # j => d[i][1] # d[j][1]}

(***************************************************************************)
(* Errors.                                                                 *)
(***************************************************************************)
NoErr == [kind |-> "none", where |-> "", a |-> "", b |-> ""]

\* line 69: raise TypeError(f"Unknown type {type(value)} for {variable}")
UnknownTypeError(value, variable) ==
    [kind |-> "TypeError", where |-> "insert_variables", a |-> value.type, b |-> variable]

\* line 168: raise ValueError(f"Variables {old, new} already exists in {name}.")
AlreadyExistsError(old, new) ==
    [kind |-> "ValueError", where |-> "map_dtype", a |-> old, b |-> new]

\* line 169: np.dtype([...]) refuses a list of fields that names one twice
DuplicateFieldError(field) ==
    [kind |-> "ValueError", where |-> "np.dtype", a |-> field, b |-> ""]

\* line 158: batch[group][variable] on an array without that field
NoFieldError(variable) ==
    [kind |-> "ValueError", where |-> "map_floats", a |-> variable, b |-> ""]

(***************************************************************************)
(* Structured arrays.                                                      *)
(***************************************************************************)
\* dtype.names
DtypeNames(arr) == [i \in DOMAIN arr.fields |-> arr.fields[i].name]

InSeq(x, s) == \E i \in DOMAIN s : s[i] = x

\* variable in batch[group].dtype.names
InNames(arr, variable) == InSeq(variable, DtypeNames(arr))

FieldIndex(arr, variable) == CHOOSE i \in DOMAIN arr.fields : arr.fields[i].name = variable

\* a new batch that holds the rewritten group alone
SetGroupAlone(b, group, arr) == [g \in {group} |-> arr]

\* lines 72 and 109: batch[group] = <the new array>
SetGroup(b, group, arr) == [b EXCEPT ![group] = arr]

\* storing a number into a column of the given dtype
Cast(dtype, v) == IF dtype = "b1" THEN (IF v = 0 THEN 0 ELSE 1) ELSE v

(***************************************************************************)
(* Transform.__post_init__                                                 *)
(***************************************************************************)
RECURSIVE InvertItems(_, _)
\* line 23, inner comprehension: {v: k for k, v in v.items()}, built entry by
\* entry, so a later entry with the same new name overwrites the earlier one
InvertItems(map_dict, n) ==
    IF n = 0 THEN <<>>
    ELSE Put(InvertItems(map_dict, n - 1), map_dict[n][2], map_dict[n][1])

\* the inverse with the first of two entries that share a new name kept
InvertKeepFirst(map_dict) ==
    LET firsts == SelectSeq([i \in DOMAIN map_dict |-> <<i, map_dict[i]>>],
                     LAMBDA p : \A j \in 1..(p[1] - 1) : map_dict[j][2] # p[2][2])
    IN  [i \in DOMAIN firsts |-> <<firsts[i][2][2], firsts[i][2][1]>>]

Invert(map_dict) == InvertItems(map_dict, Len(map_dict))

\* lines 22-24: one inverted table per group of variable_map
InvertAll(vm) == [i \in DOMAIN vm |-> <<vm[i][1], Invert(vm[i][2])>>]

\* the numpy functions floats_map names (line 31: getattr(np, func))
ApplyFunc(func, v) ==
    CASE func = "square" -> v * v
      [] func = "sign" -> (IF v > 0 THEN 1 ELSE IF v < 0 THEN 0 - 1 ELSE 0)

\* name.lstrip("/") (lines 163 and 173); "/jets" is the one group name of the
\* model with a leading slash
lstrip(name) == IF name = "/jets" THEN "jets" ELSE name

(***************************************************************************)
(* Transform.map_ints                                                      *)
(***************************************************************************)
RECURSIVE MapIntsData(_, _, _)
\* lines 134-135: for old, new in int_map.items(): data[data == old] = new
MapIntsData(field, int_map, n) ==
    IF n = 0 THEN field.data
    ELSE LET data == MapIntsData(field, int_map, n - 1)
             old == int_map[n][1]
             new == int_map[n][2]
         IN  [j \in DOMAIN data |->
                 IF data[j] = old THEN Cast(field.dtype, new) ELSE data[j]]

RECURSIVE MapIntsVariables(_, _, _)
\* lines 130-135: the fields of one group
MapIntsVariables(arr, map_dict, n) ==
    IF n = 0 THEN arr
    ELSE LET a == MapIntsVariables(arr, map_dict, n - 1)
             variable == map_dict[n][1]
             int_map == map_dict[n][2]
         IN  IF ~InNames(a, variable) THEN a
             ELSE LET i == FieldIndex(a, variable)
                  IN  [a EXCEPT !.fields[i].data =
                          MapIntsData(a.fields[i], int_map, Len(int_map))]

RECURSIVE MapIntsGroups(_, _)
\* lines 127-135: the groups of ints_map
MapIntsGroups(b, n) ==
    IF n = 0 THEN b
    ELSE LET b1 == MapIntsGroups(b, n - 1)
             group == ints_map[n][1]
             map_dict == ints_map[n][2]
         IN  IF group \notin DOMAIN b1 THEN b1
             ELSE [b1 EXCEPT ![group] =
                      MapIntsVariables(b1[group], map_dict, Len(map_dict))]

map_ints(b) == [batch |-> MapIntsGroups(b, Len(ints_map)), err |-> NoErr]

(***************************************************************************)
(* Transform.map_floats                                                    *)
(***************************************************************************)
RECURSIVE MapFloatsVariables(_, _, _)
\* lines 156-158: the fields of one group; a field the array lacks raises
MapFloatsVariables(arr, map_dict, n) ==
    IF n = 0 THEN [arr |-> arr, err |-> NoErr]
    ELSE LET r == MapFloatsVariables(arr, map_dict, n - 1)
             variable == map_dict[n][1]
             func == map_dict[n][2]
         IN  IF r.err # NoErr THEN r
             ELSE IF ~InNames(r.arr, variable)
             THEN [arr |-> r.arr, err |-> NoFieldError(variable)]
             ELSE LET i == FieldIndex(r.arr, variable)
                      f == r.arr.fields[i]
                  IN  [arr |-> [r.arr EXCEPT !.fields[i].data =
                                   [j \in DOMAIN f.data |->
                                       Cast(f.dtype, ApplyFunc(func, f.data[j]))]],
                       err |-> NoErr]

RECURSIVE MapFloatsGroups(_, _)
\* lines 153-158: the groups of floats_map
MapFloatsGroups(b, n) ==
    IF n = 0 THEN [batch |-> b, err |-> NoErr]
    ELSE LET r == MapFloatsGroups(b, n - 1)
             group == floats_map[n][1]
             map_dict == floats_map[n][2]
         IN  IF r.err # NoErr THEN r
             ELSE IF group \notin DOMAIN r.batch THEN r
             ELSE LET g == MapFloatsVariables(r.batch[group], map_dict, Len(map_dict))
                  IN  [batch |-> [r.batch EXCEPT ![group] = g.arr], err |-> g.err]

map_floats(b) == MapFloatsGroups(b, Len(floats_map))

(***************************************************************************)
(* Transform.insert_variables                                              *)
(***************************************************************************)
\* isinstance(value, cls): a Python bool is an int
IsInstance(value, cls) ==
    value.type = cls \/ (cls = "int" /\ value.type = "bool")

\* the type checks with the integer check first
NewDtIntFirst(value) ==
    IF IsInstance(value, "int") THEN "i4"
    ELSE IF IsInstance(value, "bool") THEN "b1"
    ELSE IF IsInstance(value, "float") THEN "f4"
    ELSE ""

\* lines 62-69: the storage type of a default, "" when line 69 raises
NewDt(value) ==
    IF IsInstance(value, "bool") THEN "b1"
    ELSE IF IsInstance(value, "float") THEN "f4"
    ELSE IF IsInstance(value, "int") THEN "i4"
    ELSE ""

\* lines 70-72: np.full(shape, value, dtype=new_dt), appended as the last field
AppendField(arr, variable, value, new_dt) ==
    [arr EXCEPT !.fields = Append(arr.fields,
        [name |-> variable, dtype |-> new_dt,
         data |-> [j \in 1..arr.shape |-> Cast(new_dt, value.val)]])]

\* the check of line 59 left out
NeverThere(arr, variable) == FALSE

\* line 59: if variable in batch[group].dtype.names: continue
AlreadyThere(arr, variable) == InNames(arr, variable)

RECURSIVE InsertItems(_, _, _)
\* lines 58-72: the defaults of one group
InsertItems(arr, insert, n) ==
    IF n = 0 THEN [arr |-> arr, err |-> NoErr]
    ELSE LET r == InsertItems(arr, insert, n - 1)
             variable == insert[n][1]
             value == insert[n][2]
         IN  IF r.err # NoErr THEN r
             ELSE IF AlreadyThere(r.arr, variable) THEN r
             ELSE IF NewDt(value) = ""
             THEN [arr |-> r.arr, err |-> UnknownTypeError(value, variable)]
             ELSE [arr |-> AppendField(r.arr, variable, value, NewDt(value)),
                   err |-> NoErr]

RECURSIVE InsertGroups(_, _)
\* lines 55-72: the groups of insert_vars
InsertGroups(b, n) ==
    IF n = 0 THEN [batch |-> b, err |-> NoErr]
    ELSE LET r == InsertGroups(b, n - 1)
             group == insert_vars[n][1]
             insert == insert_vars[n][2]
         IN  IF r.err # NoErr THEN r
             ELSE IF group \notin DOMAIN r.batch THEN r
             ELSE LET g == InsertItems(r.batch[group], insert, Len(insert))
                  IN  [batch |-> SetGroup(r.batch, group, g.arr), err |-> g.err]

insert_variables(b) == InsertGroups(b, Len(insert_vars))

(***************************************************************************)
(* Transform.map_dtype, Transform.map_variables                            *)
(***************************************************************************)
\* the entries (old, new) of map_dict with both names in the schema (line 167)
Clashes(map_dict, names) ==
    {i \in DOMAIN map_dict : InSeq(map_dict[i][1], names) /\ InSeq(map_dict[i][2], names)}

Min(S) == CHOOSE x \in S : \A y \in S : x <= y

\* the positions of a list of names that repeat an earlier one
Repeats(names) == {j \in DOMAIN names : \E i \in 1..(j - 1) : names[i] = names[j]}

\* line 169: [(map_dict.get(name, name), dtype[name]) for name in names]
Renamed(map_dict, names) == [i \in DOMAIN names |-> GetOr(map_dict, names[i], names[i])]

\* lines 161-169: the renamed names of a schema, or the error raised
map_dtype(name, names) ==
    LET map_dict == GetOr(variable_map, lstrip(name), <<>>)
    IN  IF map_dict = <<>> THEN [names |-> names, err |-> NoErr]
        ELSE IF Clashes(map_dict, names) # {}
        THEN LET i == Min(Clashes(map_dict, names))
             IN  [names |-> names,
                  err |-> AlreadyExistsError(map_dict[i][1], map_dict[i][2])]
        ELSE LET new == Renamed(map_dict, names)
             IN  IF Repeats(new) # {}
                 THEN [names |-> names, err |-> DuplicateFieldError(new[Min(Repeats(new))])]
                 ELSE [names |-> new, err |-> NoErr]

\* line 109: batch[group].astype(dtype): the columns are carried over by position
astype(arr, names) ==
    [arr EXCEPT !.fields = [i \in DOMAIN arr.fields |-> [arr.fields[i] EXCEPT !.name = names[i]]]]


RECURSIVE MapVariablesGroups(_, _)
\* lines 107-109: the groups of variable_map
MapVariablesGroups(b, n) ==
    IF n = 0 THEN [batch |-> b, err |-> NoErr]
    ELSE LET r == MapVariablesGroups(b, n - 1)
             group == variable_map[n][1]
         IN  IF r.err # NoErr THEN r
             ELSE IF group \notin DOMAIN r.batch THEN r
             ELSE LET d == map_dtype(group, DtypeNames(r.batch[group]))
                  IN  IF d.err # NoErr THEN [batch |-> r.batch, err |-> d.err]
                      ELSE [batch |-> SetGroup(r.batch, group, astype(r.batch[group], d.names)),
                            err |-> NoErr]

map_variables(b) == MapVariablesGroups(b, Len(variable_map))

(***************************************************************************)
(* Transform.map_variable_names                                            *)
(***************************************************************************)
\* line 172: the table the translation reads
TableFor(inverse) == IF inverse THEN variable_map_inv ELSE variable_map

\* lines 171-175
map_variable_names(name, variables, inverse) ==
    LET map_dict == GetOr(TableFor(inverse), lstrip(name), <<>>)
    IN  IF map_dict = <<>> THEN variables
        ELSE [i \in DOMAIN variables |-> GetOr(map_dict, variables[i], variables[i])]

(***************************************************************************)
(* Transform.__call__                                                      *)
(***************************************************************************)
\* lines 34-37: the four stages in their fixed order; an exception ends the call
call(b) ==
    LET r1 == map_ints(b)
        r2 == IF r1.err # NoErr THEN r1 ELSE map_floats(r1.batch)
        r3 == IF r2.err # NoErr THEN r2 ELSE insert_variables(r2.batch)
    IN  IF r3.err # NoErr THEN r3 ELSE map_variables(r3.batch)

(***************************************************************************)
(* The inputs of the model: field names, groups, batches and tables.       *)
(***************************************************************************)
Names == {"a", "b", "c"}

Vals == 0..MaxVal

\* the dtype of the i-th field of an incoming group
TypeAt(i) == IF i % 2 = 1 THEN "i4" ELSE "f4"

\* an incoming structured array with the given field names
Arr(names) ==
    [shape |-> NumRecords,
     fields |-> [i \in DOMAIN names |->
        [name |-> names[i], dtype |-> TypeAt(i),
         data |-> [j \in 1..NumRecords |-> (i + j) % (MaxVal + 1)]]]]

Schemas == {<<"a">>, <<"c">>, <<"a", "b">>, <<"b", "a">>, <<"a", "c">>}

Batches ==
    {[g \in G |-> IF g = "jets" THEN Arr(j) ELSE Arr(t)] :
        G \in SUBSET {"jets", "tracks"}, j \in Schemas, t \in {<<"a", "b">>, <<"b">>}}

\* Python scalars
PyTrue == [type |-> "bool", val |-> 1]
PyFalse == [type |-> "bool", val |-> 0]
PyInt(v) == [type |-> "int", val |-> v]
PyFloat(v) == [type |-> "float", val |-> v]
PyStr == [type |-> "str", val |-> 0]

Defaults == {PyTrue, PyFalse, PyInt(1), PyFloat(2), PyStr}

RenameTables ==
    {<<<<"a", "b">>>>, <<<<"c", "a">>>>, <<<<"a", "a">>>>,
     <<<<"a", "b">>, <<"b", "a">>>>, <<<<"a", "c">>, <<"b", "c">>>>,
     <<<<"a", "b">>, <<"b", "c">>>>}

VariableMaps ==
    {<<>>}
    \cup {<<<<"jets", t>>>> : t \in RenameTables}
    \cup {<<<<"jets", <<<<"a", "c">>>>>>, <<"tracks", <<<<"a", "b">>>>>>>>,
          <<<<"tracks", <<<<"b", "c">>>>>>, <<"jets", <<<<"a", "b">>>>>>>>}

IntsMaps ==
    {<<>>,
     <<<<"jets", <<<<"a", <<<<1, 2>>, <<2, 0>>>>>>>>>>>>,
     <<<<"jets", <<<<"a", <<<<2, 0>>, <<1, 2>>>>>>>>>>>>,
     <<<<"jets", <<<<"c", <<<<0, 1>>>>>>, <<"a", <<<<0, 2>>>>>>>>>>>>,
     <<<<"tracks", <<<<"a", <<<<1, 0>>>>>>>>>>, <<"jets", <<<<"b", <<<<2, 1>>>>>>>>>>>>}

FloatsMaps ==
    {<<>>,
     <<<<"jets", <<<<"a", "square">>>>>>>>,
     <<<<"jets", <<<<"c", "sign">>, <<"a", "square">>>>>>>>,
     <<<<"tracks", <<<<"b", "sign">>>>>>>>}

InsertVars ==
    {<<>>,
     <<<<"jets", <<<<"c", PyTrue>>>>>>>>,
     <<<<"jets", <<<<"a", PyInt(1)>>>>>>>>,
     <<<<"jets", <<<<"c", PyFloat(2)>>, <<"b", PyStr>>>>>>>>,
     <<<<"tracks", <<<<"c", PyInt(1)>>>>>>, <<"jets", <<<<"b", PyFalse>>>>>>>>}

\* how many of the four tables a configuration fills
Filled(vm, im, fm, iv) ==
    (IF vm = <<>> THEN 0 ELSE 1) + (IF im = <<>> THEN 0 ELSE 1)
    + (IF fm = <<>> THEN 0 ELSE 1) + (IF iv = <<>> THEN 0 ELSE 1)

NoTranslation == [name |-> "jets", orig |-> <<>>, cur |-> <<>>, dirs |-> <<>>]

(***************************************************************************)
(* Construction (__post_init__) and the first batch.                       *)
(***************************************************************************)
\* lines 20-27: the tables as given, the inverse table derived from variable_map
PostInit(vm, im, fm, iv) ==
    /\ variable_map = vm
    /\ variable_map_inv = InvertAll(vm)
    /\ ints_map = im
    /\ floats_map = fm
    /\ insert_vars = iv

Fresh(b) ==
    /\ batch = b
    /\ pre = b
    /\ err = NoErr
    /\ hist = <<>>

Init ==
    /\ \E vm \in VariableMaps, im \in IntsMaps, fm \in FloatsMaps, iv \in InsertVars :
          /\ Filled(vm, im, fm, iv) <= MaxTables
          /\ PostInit(vm, im, fm, iv)
    /\ \E b \in Batches : Fresh(b)
    /\ tr = NoTranslation

(***************************************************************************)
(* The method calls a caller makes on the batch it holds.                  *)
(***************************************************************************)
Do(op, r) ==
    /\ Len(hist) < MaxOps
    /\ batch' = r.batch
    /\ err' = r.err
    /\ hist' = Append(hist, [op |-> op, err |-> r.err])
    /\ pre' = batch
    /\ UNCHANGED <<variable_map, variable_map_inv, ints_map, floats_map, insert_vars, tr>>

Call == Do("__call__", call(batch))

MapInts == Do("map_ints", map_ints(batch))

MapFloats == Do("map_floats", map_floats(batch))

InsertVariables == Do("insert_variables", insert_variables(batch))

MapVariables == Do("map_variables", map_variables(batch))

Next == Call \/ MapInts \/ MapFloats \/ InsertVariables \/ MapVariables

Spec == Init /\ [][Next]_vars

(***************************************************************************)
(* insert_variables on generated tables of defaults.                       *)
(***************************************************************************)
GeneratedInsertVars ==
    {<<>>}
    \cup {<<<<"jets", d>>>> : d \in Dicts(Names, Defaults, MaxInsert)}
    \cup {<<<<"tracks", <<<<"c", PyFalse>>>>>>, <<"jets", d>>>> :
             d \in Dicts(Names, Defaults, 1)}

InitInsert ==
    /\ \E iv \in GeneratedInsertVars : PostInit(<<>>, <<>>, <<>>, iv)
    /\ \E b \in Batches : Fresh(b)
    /\ tr = NoTranslation

SpecInsert == InitInsert /\ [][Next]_vars

(***************************************************************************)
(* map_variable_names on generated rename tables.                          *)
(***************************************************************************)
GroupNames == {"jets", "/jets", "tracks"}

GeneratedVariableMaps ==
    {<<>>}
    \cup {<<<<g, t>>>> : g \in {"jets", "/jets"}, t \in Dicts(Names, Names, MaxMapLen)}

InitNames ==
    /\ \E vm \in GeneratedVariableMaps : PostInit(vm, <<>>, <<>>, <<>>)
    /\ \E b \in {bb \in Batches : DOMAIN bb = {}} : Fresh(b)
    /\ \E name \in GroupNames, variables \in SeqsUpTo(Names, MaxListLen) :
          tr = [name |-> name, orig |-> variables, cur |-> variables, dirs |-> <<>>]

\* a caller translates the list it holds, forward or back
MapVariableNames ==
    \E inverse \in BOOLEAN :
        /\ Len(tr.dirs) < MaxTranslations
        /\ tr' = [tr EXCEPT !.cur = map_variable_names(tr.name, tr.cur, inverse),
                            !.dirs = Append(@, inverse)]
        /\ UNCHANGED <<variable_map, variable_map_inv, ints_map, floats_map,
                       insert_vars, batch, err, hist, pre>>

NextNames == MapVariableNames

SpecNames == InitNames /\ [][NextNames]_vars

(***************************************************************************)
(* What the properties below read off a state.                             *)
(***************************************************************************)
Done(op) == hist # <<>> /\ hist[Len(hist)].op = op

\* the last two method calls were both op, and the first of them returned
DoneTwice(op) ==
    /\ Len(hist) >= 2
    /\ hist[Len(hist)].op = op
    /\ hist[Len(hist) - 1].op = op
    /\ hist[Len(hist) - 1].err = NoErr

\* the groups a table of the configuration has an entry for
Configured == Keys(variable_map) \cup Keys(ints_map) \cup Keys(floats_map) \cup Keys(insert_vars)

\* the fields of group g the last method call added
AddedFields(g) == {i \in DOMAIN batch[g].fields : i > Len(pre[g].fields)}

\* the fields group g had before the last method call are as they were
OldFieldsKept(g) ==
    /\ batch[g].shape = pre[g].shape
    /\ Len(batch[g].fields) >= Len(pre[g].fields)
    /\ \A i \in DOMAIN pre[g].fields : batch[g].fields[i] = pre[g].fields[i]

(***************************************************************************)
(* C1  A call of the Transform that raises leaves the batch as it was      *)
(* before the call: no stage's effect is committed.                        *)
(***************************************************************************)
C1_NoPartialCommit ==
    (Done("__call__") /\ err # NoErr) => batch = pre

(***************************************************************************)
(* C2  After map_ints every value v of a mapped field is M[v] when v is a  *)
(* key of the field's table M and v otherwise: one substitution, never     *)
(* chained through a second entry.                                         *)
(***************************************************************************)
C2_SingleSubstitution ==
    Done("map_ints") =>
        \A g \in Keys(ints_map) \cap DOMAIN pre :
            \A variable \in Keys(Get(ints_map, g)) :
                InNames(pre[g], variable) =>
                    LET M == Get(Get(ints_map, g), variable)
                        i == FieldIndex(pre[g], variable)
                        old == pre[g].fields[i].data
                        new == batch[g].fields[i].data
                    IN  \A j \in DOMAIN old :
                            new[j] = IF Has(M, old[j]) THEN Get(M, old[j]) ELSE old[j]

(***************************************************************************)
(* C5  map_floats and map_ints skip, without raising and without changing  *)
(* the batch, a configured group or field the batch lacks, and recompute   *)
(* every configured field that is there.                                   *)
(***************************************************************************)
C5_SkipsAbsent ==
    /\ Done("map_ints") => err = NoErr
    /\ Done("map_floats") =>
        /\ err = NoErr
        /\ DOMAIN batch = DOMAIN pre
        /\ \A g \in DOMAIN pre :
            /\ DtypeNames(batch[g]) = DtypeNames(pre[g])
            /\ \A i \in DOMAIN pre[g].fields :
                LET f == pre[g].fields[i]
                    map_dict == GetOr(floats_map, g, <<>>)
                IN  batch[g].fields[i].data =
                        IF Has(map_dict, f.name)
                        THEN [j \in DOMAIN f.data |->
                                 Cast(f.dtype, ApplyFunc(Get(map_dict, f.name), f.data[j]))]
                        ELSE f.data

\* the names of group g's fields, renamed by the group's own table
C6_RenamedTo(g) == Renamed(Get(variable_map, g), DtypeNames(pre[g]))

C6_WouldRepeat(g) == Repeats(C6_RenamedTo(g)) # {}

C6_Carried(g, names) ==
    /\ DtypeNames(batch[g]) = names
    /\ batch[g].shape = pre[g].shape
    /\ \A i \in DOMAIN pre[g].fields :
        /\ batch[g].fields[i].dtype = pre[g].fields[i].dtype
        /\ batch[g].fields[i].data = pre[g].fields[i].data

(***************************************************************************)
(* C6  map_variables fails with the naming-collision error, naming an      *)
(* (old, new) entry, exactly when renaming some group by its table would   *)
(* name a field twice; no group is left partly renamed; and without such a *)
(* duplicate every group is renamed, field order and types kept.           *)
(***************************************************************************)
C6_CollisionIffDuplicate ==
    Done("map_variables") =>
        LET G == Keys(variable_map) \cap DOMAIN pre
        IN  /\ \A g \in G : C6_Carried(g, DtypeNames(pre[g])) \/ C6_Carried(g, C6_RenamedTo(g))
            /\ (\E g \in G : C6_WouldRepeat(g)) =>
                   /\ err.where = "map_dtype"
                   /\ \E g \in G : \E i \in DOMAIN Get(variable_map, g) :
                          /\ err.a = Get(variable_map, g)[i][1]
                          /\ err.b = Get(variable_map, g)[i][2]
            /\ (\A g \in G : ~C6_WouldRepeat(g)) =>
                   /\ err = NoErr
                   /\ \A g \in G : C6_Carried(g, C6_RenamedTo(g))

(***************************************************************************)
(* C7  A second call of the Transform on the batch a first call returned   *)
(* completes without error.                                                *)
(***************************************************************************)
C7_SecondCallSucceeds ==
    DoneTwice("__call__") => err = NoErr

(***************************************************************************)
(* C8  insert_variables is idempotent: a second insert_variables on the    *)
(* batch the first returned changes no schema, record count or value, and  *)
(* no insert_variables touches a field the group already has or names a    *)
(* field twice.                                                            *)
(***************************************************************************)
C8_InsertIdempotent ==
    /\ DoneTwice("insert_variables") => (batch = pre /\ err = NoErr)
    /\ Done("insert_variables") =>
        /\ DOMAIN batch = DOMAIN pre
        /\ \A g \in DOMAIN pre :
            /\ OldFieldsKept(g)
            /\ Repeats(DtypeNames(batch[g])) = {}

\* a second insert_variables ran on a batch the first had added a boolean field to
C8_Witness ==
    /\ DoneTwice("insert_variables")
    /\ err = NoErr
    /\ \E g \in DOMAIN batch : \E i \in DOMAIN batch[g].fields :
          batch[g].fields[i].dtype = "b1"

(***************************************************************************)
(* C9  A call of the Transform keeps the batch's set of groups, and a      *)
(* group no table has an entry for keeps its schema and its values.        *)
(***************************************************************************)
C9_UntouchedGroups ==
    Done("__call__") =>
        /\ DOMAIN batch = DOMAIN pre
        /\ \A g \in DOMAIN pre \ Configured : batch[g] = pre[g]

\* a call returned having changed one group and passed another through
C9_Witness ==
    /\ Done("__call__")
    /\ err = NoErr
    /\ batch # pre
    /\ \E g \in DOMAIN pre \ Configured : batch[g] = pre[g]

\* the storage type the default's type asks for
C10_Storage(value) ==
    CASE value.type = "bool" -> "b1"
      [] value.type = "float" -> "f4"
      [] value.type = "int" -> "i4"
      [] OTHER -> "none"

\* the defaults of group g for fields the group lacked before the call
C10_Missing(g) ==
    {i \in DOMAIN Get(insert_vars, g) : ~InNames(pre[g], Get(insert_vars, g)[i][1])}

(***************************************************************************)
(* C10 A field insert_variables adds is stored as b1 for a boolean         *)
(* default, f4 for a float, i4 for an integer, holds the default in every  *)
(* record and leaves the group's fields, values and record count alone; a  *)
(* missing field whose default is of another type raises the type error    *)
(* naming the type and the field.                                          *)
(***************************************************************************)
C10_InsertedAsTyped ==
    Done("insert_variables") =>
        /\ \A g \in DOMAIN pre :
            /\ OldFieldsKept(g)
            /\ \A i \in AddedFields(g) :
                LET f == batch[g].fields[i]
                IN  /\ Has(GetOr(insert_vars, g, <<>>), f.name)
                    /\ f.dtype = C10_Storage(Get(Get(insert_vars, g), f.name))
                    /\ Len(f.data) = pre[g].shape
                    /\ \A j \in DOMAIN f.data : f.data[j] = Get(Get(insert_vars, g), f.name).val
        /\ err = NoErr =>
            \A g \in Keys(insert_vars) \cap DOMAIN pre : \A i \in C10_Missing(g) :
                /\ InNames(batch[g], Get(insert_vars, g)[i][1])
                /\ C10_Storage(Get(insert_vars, g)[i][2]) # "none"
        /\ (\E g \in Keys(insert_vars) \cap DOMAIN pre : \E i \in C10_Missing(g) :
                C10_Storage(Get(insert_vars, g)[i][2]) = "none") =>
            /\ err.kind = "TypeError"
            /\ \E g \in Keys(insert_vars) \cap DOMAIN pre : \E i \in C10_Missing(g) :
                  /\ err.b = Get(insert_vars, g)[i][1]
                  /\ err.a = Get(insert_vars, g)[i][2].type
                  /\ C10_Storage(Get(insert_vars, g)[i][2]) = "none"

\* insert_variables added a boolean default next to an integer or float one
C10_Witness ==
    /\ Done("insert_variables")
    /\ err = NoErr
    /\ \E g \in DOMAIN pre :
          /\ \E i \in AddedFields(g) : batch[g].fields[i].dtype = "b1"
          /\ \E i \in AddedFields(g) : batch[g].fields[i].dtype # "b1"

\* the rename table the translation in progress looks up
C3_Table == GetOr(variable_map, lstrip(tr.name), <<>>)

C3_Targets == {C3_Table[i][2] : i \in DOMAIN C3_Table}

(***************************************************************************)
(* C3  Translating a list of field names forward and then back, or back    *)
(* and then forward, for a group with a rename table returns the list.     *)
(* As stated, for every list.                                              *)
(***************************************************************************)
C3_RoundTripAnyList ==
    (C3_Table # <<>> /\ tr.dirs \in {<<FALSE, TRUE>>, <<TRUE, FALSE>>}) => tr.cur = tr.orig

\* n is a key of the table that no later entry maps to the same new name
C3_LastKeyOfItsTarget(n) ==
    \E i \in DOMAIN C3_Table :
        /\ C3_Table[i][1] = n
        /\ \A j \in DOMAIN C3_Table : j > i => C3_Table[j][2] # C3_Table[i][2]

(***************************************************************************)
(* C3, amended: forward and then back returns the list when each of its    *)
(* names is a key of the table that no later entry shares its new name     *)
(* with, or is neither a key nor a new name of the table; back and then    *)
(* forward returns the list when none of its names is a key of the table   *)
(* without also being a new name of it.                                    *)
(***************************************************************************)
C3_RoundTrip ==
    /\ (/\ tr.dirs = <<FALSE, TRUE>>
        /\ \A k \in DOMAIN tr.orig :
              \/ C3_LastKeyOfItsTarget(tr.orig[k])
              \/ (~Has(C3_Table, tr.orig[k]) /\ tr.orig[k] \notin C3_Targets))
       => tr.cur = tr.orig
    /\ (/\ tr.dirs = <<TRUE, FALSE>>
        /\ \A k \in DOMAIN tr.orig :
              Has(C3_Table, tr.orig[k]) => tr.orig[k] \in C3_Targets)
       => tr.cur = tr.orig

\* a list with a renamed and an unrenamed name came back from forward-then-back,
\* under a table that maps two old names to one new name
C3_Witness ==
    /\ Len(C3_Table) = 2
    /\ C3_Table[1][2] = C3_Table[2][2]
    /\ tr.name = "/jets"
    /\ tr.dirs = <<FALSE, TRUE>>
    /\ Len(tr.orig) = 2
    /\ C3_LastKeyOfItsTarget(tr.orig[1])
    /\ ~Has(C3_Table, tr.orig[2]) /\ tr.orig[2] \notin C3_Targets
    /\ tr.cur = tr.orig

(***************************************************************************)
(* C4  variable_map_inv is the exact inverse of variable_map: the same     *)
(* groups, new -> old in the one exactly when old -> new in the other, and *)
(* as many entries per group.                                              *)
(***************************************************************************)
C4_ExactInverse ==
    /\ Keys(variable_map_inv) = Keys(variable_map)
    /\ \A g \in Keys(variable_map) :
        LET fwd == Get(variable_map, g)
            inv == Get(variable_map_inv, g)
        IN  /\ Len(inv) = Len(fwd)
            /\ \A old \in Names, new \in Names :
                  (Has(inv, new) /\ Get(inv, new) = old)
                      <=> (Has(fwd, old) /\ Get(fwd, old) = new)

====
